---- MODULE Spec2Model ----
(***************************************************************************)
(* Turn orchestration of the two-agent chess game (src/chess_agents.py),   *)
(* its command line (src/main.py) and its window (src/chess_ui.py).        *)
(*                                                                         *)
(* The rules engine (python-chess) and the agent runtime (pydantic_ai) are *)
(* libraries outside the repository.  The engine is represented by a small *)
(* deterministic position graph that has a position of every kind the      *)
(* engine reports (open, checkmate for either side, stalemate, draw by     *)
(* insufficient material with moves still available).  The agent runtime   *)
(* is represented by its run loop: one model request per step, the result  *)
(* validator after each response, the result-retry counter and the request *)
(* limit checked before each request.                                      *)
(*                                                                         *)
(* Strings built with f-strings are sequences of their parts.              *)
(***************************************************************************)
EXTENDS Integers, Sequences, FiniteSets, TLC

VARIABLES
    board,                \* ChessGame.board (chess.Board)
    move_history,         \* ChessGame.move_history
    usage,                \* ChessGame.usage.requests
    usage_limits,         \* ChessGame.usage_limits.request_limit
    last_move_reasoning,  \* ChessGame.last_move_reasoning
    ui_callback,          \* ChessGame.ui_callback is set
    pc,                   \* "idle" | "loop" (play_game between turns) | "run" (awaiting active_agent.run)
                          \* | "wstart" | "wloop" | "emit" | "wdone" (the GUI worker, see below)
    caller,               \* who called play_one_move: "play_game" | "direct" | "worker"
    position,             \* play_one_move's local: the snapshot of this turn
    prompt,               \* play_one_move's local: what the agent of this turn is told
    retry,                \* the run's result-retry counter
    game_record,          \* play_game's local, returned at the end
    move_num,             \* play_game's loop variable
    max_moves,            \* play_game's argument
    game_state,           \* "none" | "running" | "returned": the latest play_game call
    result,               \* what the latest play_one_move returned: (data, message)
    turn_state,           \* "none" | "running" | "returned": the latest play_one_move call
    pre,                  \* history: board, move_history, usage when the latest turn started
    requests,             \* history: model requests made in the latest turn
    response,             \* history: the latest answer of the model in the latest turn
    notified,             \* history: ui_callback invocations in the latest turn
    game_entry,           \* history: board, usage when the latest play_game started
    turns,                \* history: play_one_move calls made by the latest play_game
    api_calls,            \* history: calls of play_game / play_one_move made by the client
    flags,                \* what the engine reports to get_game_result: five flags and the turn
    classified,           \* what get_game_result returned for them ("none": not called)
    running,              \* ChessGameWorker.running of the latest worker (FALSE: none built yet)
    workers,              \* history: workers whose run_game has not returned
    ui,                   \* the GUI thread: "ready" | "wait_stop" | "wait_handler" (in game_thread.wait())
    start_enabled,        \* start_button.isEnabled()
    stop_enabled,         \* stop_button.isEnabled()
    signals,              \* signals emitted by workers and not yet delivered to the GUI thread
    commentary,           \* what reasoning_display shows: (color, move, reasoning) per entry
    games                 \* history: games started from the GUI

vars == <<board, move_history, usage, usage_limits, last_move_reasoning, ui_callback,
          pc, caller, position, prompt, retry, game_record, move_num, max_moves, game_state,
          result, turn_state, pre, requests, response, notified, game_entry, turns,
          api_calls, flags, classified, running, workers, ui, start_enabled,
          stop_enabled, signals, commentary, games>>

class_vars == <<flags, classified>>

ui_vars == <<running, workers, ui, start_enabled, stop_enabled, signals, commentary, games>>

game_vars == <<game_record, move_num, max_moves, game_state, game_entry, turns>>

-----------------------------------------------------------------------------
(* Bounds of the model *)

MaxMoves == 3          \* largest max_moves passed to play_game
MaxCalls == 2          \* calls of play_game / play_one_move by the client
MaxRequestLimit == 4   \* largest request_limit configured
MaxGames == 2          \* games started from the GUI
MaxWorkerTurns == 2    \* turns a GUI worker plays in one game

(* Program constants *)

Retries == 2           \* Agent(..., retries=2)

-----------------------------------------------------------------------------
(* Rules engine: a position graph standing for python-chess *)

WHITE == "white"
BLACK == "black"

Other(color) == IF color = WHITE THEN BLACK ELSE WHITE

\* Well-formed UCI strings (chess.Move.from_uci parses them) and one that is not.
WellFormed == {"e2e4", "f2f3", "e7e5", "d8h4", "d1h5", "g1f3", "b8c6", "e2e5"}
Ucis == WellFormed \cup {"e2"}

\* Pawn moves and captures reset the half-move clock.
Zeroing == {"e2e4", "f2f3", "e7e5", "e2e5"}

\* <<position, move, next position>>
Edges ==
    { <<"start", "e2e4", "A1">>,   <<"start", "f2f3", "A2">>,
      <<"A1", "e7e5", "B1">>,
      <<"A2", "e7e5", "stale">>,   <<"A2", "d8h4", "mateW">>,
      <<"B1", "d1h5", "mateB">>,   <<"B1", "g1f3", "drawIM">>,
      <<"drawIM", "b8c6", "C1">> }

Checkmates == {"mateW", "mateB"}
Stalemates == {"stale"}
Insufficient == {"drawIM"}

InitialBoard ==
    [fen |-> "start", turn |-> WHITE, move_stack |-> <<>>,
     halfmove_clock |-> 0, fullmove_number |-> 1]

LegalMoves(b) == { e[2] : e \in { x \in Edges : x[1] = b.fen } }

IsCheckmate(b) == b.fen \in Checkmates
IsStalemate(b) == b.fen \in Stalemates
IsCheck(b) == b.fen \in Checkmates
IsInsufficientMaterial(b) == b.fen \in Insufficient
IsSeventyfiveMoves(b) == b.halfmove_clock >= 150 /\ LegalMoves(b) # {}
IsFiftyMoves(b) == b.halfmove_clock >= 100 /\ LegalMoves(b) # {}
IsRepetition(b) == FALSE     \* the graph has no cycle: no position occurs twice

IsGameOver(b) ==
    IsCheckmate(b) \/ IsStalemate(b) \/ IsInsufficientMaterial(b) \/ IsSeventyfiveMoves(b)

\* board.push(move): no legality check; the side to move flips, the clocks advance.
Push(b, m) ==
    [fen |-> IF m \in LegalMoves(b)
             THEN (CHOOSE e \in Edges : e[1] = b.fen /\ e[2] = m)[3]
             ELSE "off",
     turn |-> Other(b.turn),
     move_stack |-> Append(b.move_stack, m),
     halfmove_clock |-> IF m \in Zeroing THEN 0 ELSE b.halfmove_clock + 1,
     fullmove_number |-> IF b.turn = BLACK THEN b.fullmove_number + 1
                         ELSE b.fullmove_number]

FromUciRaises(m) == m \notin WellFormed

-----------------------------------------------------------------------------
(* chess_agents.py: snapshots, results, messages *)

LastOf(mh) == IF Len(mh) > 0 THEN mh[Len(mh)] ELSE "None"

\* ChessGame.get_current_position over the fields it reads
PositionOf(b, mh) ==
    [fen |-> <<b.fen, b.turn, b.halfmove_clock, b.fullmove_number>>,
     last_move |-> LastOf(mh),
     legal_moves |-> LegalMoves(b),
     is_check |-> IsCheck(b),
     is_checkmate |-> IsCheckmate(b),
     is_stalemate |-> IsStalemate(b),
     is_game_over |-> IsGameOver(b),
     half_move_clock |-> b.halfmove_clock,
     fullmove_number |-> b.fullmove_number,
     active_color |-> IF b.turn = WHITE THEN "white" ELSE "black"]

get_current_position == PositionOf(board, move_history)

\* Mutant of ClassifyResult: stalemate is looked at before checkmate
ClassifyResult_StalemateFirst(checkmate, stalemate, insufficient, fifty, repetition, turn) ==
    IF stalemate THEN "1/2-1/2 (Stalemate)"
    ELSE IF checkmate THEN (IF turn # WHITE THEN "1-0" ELSE "0-1")
    ELSE IF insufficient THEN "1/2-1/2 (Insufficient material)"
    ELSE IF fifty THEN "1/2-1/2 (Fifty-move rule)"
    ELSE IF repetition THEN "1/2-1/2 (Repetition)"
    ELSE "Unknown result"

\* ChessGame.get_game_result over the engine's flags
ClassifyResult(checkmate, stalemate, insufficient, fifty, repetition, turn) ==
    IF checkmate THEN (IF turn # WHITE THEN "1-0" ELSE "0-1")
    ELSE IF stalemate THEN "1/2-1/2 (Stalemate)"
    ELSE IF insufficient THEN "1/2-1/2 (Insufficient material)"
    ELSE IF fifty THEN "1/2-1/2 (Fifty-move rule)"
    ELSE IF repetition THEN "1/2-1/2 (Repetition)"
    ELSE "Unknown result"

get_game_result(b) ==
    ClassifyResult(IsCheckmate(b), IsStalemate(b), IsInsufficientMaterial(b),
                   IsFiftyMoves(b), IsRepetition(b), b.turn)

\* The rationale is free text the core never reads; each move comes with its own.
Reasoning(uci) == <<"because ", uci>>
AgentReasons == {<<"no move found">>}

ChessMove(uci, reasoning) == [type |-> "ChessMove", move_uci |-> uci, reasoning |-> reasoning]
NoValidMove(reason) == [type |-> "NoValidMove", reason |-> reason]

\* What the model can answer to one request.
ChessMoves == { ChessMove(u, Reasoning(u)) : u \in Ucis }
Abstentions == { NoValidMove(r) : r \in AgentReasons }

\* Mutants of validate_move: no membership test; an abstention sent back for a retry
validate_move_AcceptsAny(deps, res) == TRUE
validate_move_RetriesAbstention(deps, res) ==
    res.type = "ChessMove" /\ res.move_uci \in deps.legal_moves

\* validate_move: TRUE when the result is returned, FALSE when ModelRetry is raised
validate_move(deps, res) ==
    IF res.type = "NoValidMove" THEN TRUE
    ELSE res.move_uci \in deps.legal_moves

agent_name(pos) == IF pos.active_color = "white" THEN "White" ELSE "Black"

\* str(e) of what active_agent.run raises
UsageLimitExceeded == "The next request would exceed the request_limit"
RetriesExceeded == "Exceeded maximum retries for result validation"
RequestFailed == "model request failed"
CallbackFailed == "ui_callback raised"
LoggingFailed == "logfire.info raised"
FromUciFailed == "invalid uci"

\* Mutant of LastColor: the parity is read the other way round
LastColor_EvenIsWhite(mh) == IF Len(mh) % 2 = 0 THEN "White" ELSE "Black"

\* last_color = "White" if len(self.move_history) % 2 == 1 else "Black"
LastColor(mh) == IF Len(mh) % 2 = 1 THEN "White" ELSE "Black"

move_description(mh) ==
    IF Len(mh) > 0
    THEN <<LastColor(mh), "'s last move was ", mh[Len(mh)], ". ">>
    ELSE <<>>

\* The prompt of a turn, as the parts the f-string is filled with
Prompt(pos, mh) ==
    [side |-> agent_name(pos),
     move_description |-> move_description(mh),
     fen |-> pos.fen,
     legal_moves |-> pos.legal_moves,
     is_check |-> pos.is_check,
     move_number |-> pos.fullmove_number]

\* No prompt built yet
NoPrompt ==
    [side |-> "none", move_description |-> <<>>, fen |-> <<>>, legal_moves |-> {},
     is_check |-> FALSE, move_number |-> 0]

error_msg(pos, e) == <<"Error during ", agent_name(pos), "'s move: ", e>>
GameAlreadyOver == <<"Game is already over">>

\* Mutant of Entry: the loop variable is recorded as it is
Entry_ZeroBased(num, data, message, b, mh) ==
    [move_number |-> num,
     move |-> IF data.type = "ChessMove" THEN data.move_uci ELSE "None",
     reasoning |-> IF data.type = "ChessMove" THEN data.reasoning ELSE <<"None">>,
     position |-> PositionOf(b, mh),
     message |-> message]

\* Mutant of Entry: the snapshot recorded is the one taken before the turn
Entry_StalePosition(num, data, message, b, mh) ==
    [move_number |-> num + 1,
     move |-> IF data.type = "ChessMove" THEN data.move_uci ELSE "None",
     reasoning |-> IF data.type = "ChessMove" THEN data.reasoning ELSE <<"None">>,
     position |-> PositionOf(pre.board, pre.move_history),
     message |-> message]

\* The entry play_game appends after a turn
Entry(num, data, message, b, mh) ==
    [move_number |-> num + 1,
     move |-> IF data.type = "ChessMove" THEN data.move_uci ELSE "None",
     reasoning |-> IF data.type = "ChessMove" THEN data.reasoning ELSE <<"None">>,
     position |-> PositionOf(b, mh),
     message |-> message]

GameOverEntry(b) == [event |-> "game_over", result |-> get_game_result(b)]

-----------------------------------------------------------------------------
(* Initial state: ChessGame.__init__; request_limit is configuration           *)
(* ("Adjust as needed"), drawn here from 1..MaxRequestLimit.                   *)

GameInit ==
    /\ board = InitialBoard
    /\ move_history = <<>>
    /\ usage = 0
    /\ usage_limits \in 1..MaxRequestLimit
    /\ last_move_reasoning = <<>>
    /\ ui_callback = FALSE
    /\ pc = "idle"
    /\ caller = "direct"
    /\ position = PositionOf(InitialBoard, <<>>)
    /\ prompt = NoPrompt
    /\ retry = 0
    /\ game_record = <<>>
    /\ move_num = 0
    /\ max_moves = 0
    /\ game_state = "none"
    /\ result = [data |-> NoValidMove(<<>>), message |-> <<>>]
    /\ turn_state = "none"
    /\ pre = [board |-> InitialBoard, move_history |-> <<>>, usage |-> 0]
    /\ requests = 0
    /\ response = [type |-> "none"]
    /\ notified = <<>>
    /\ game_entry = [board |-> InitialBoard, usage |-> 0]
    /\ turns = 0
    /\ api_calls = 0

\* The flags of the initial board
NoFlags ==
    [checkmate |-> FALSE, stalemate |-> FALSE, insufficient |-> FALSE,
     fifty |-> FALSE, repetition |-> FALSE, turn |-> WHITE]

\* ChessUI.init_ui: no worker yet, Start enabled, Stop disabled, empty displays
UiVarsInit ==
    /\ running = FALSE
    /\ workers = 0
    /\ ui = "ready"
    /\ start_enabled = TRUE
    /\ stop_enabled = FALSE
    /\ signals = <<>>
    /\ commentary = <<>>
    /\ games = 0

Init ==
    /\ GameInit
    /\ flags = NoFlags
    /\ classified = "none"
    /\ UiVarsInit

-----------------------------------------------------------------------------
(* play_one_move *)

\* Mutant of TurnIsOver: the early return is missing
TurnIsOver_Never(pos) == FALSE

\* The early return of play_one_move
TurnIsOver(pos) == pos.is_game_over

\* Mutant of RetryExceeded: one retry too many
RetryExceeded_OffByOne(n) == n > Retries + 1

\* The runtime's retry ceiling: the run fails once the counter passes it
RetryExceeded(n) == n > Retries

\* The request limit checked before each request
LimitReached(u, limit) == u >= limit

\* Mutant of Counted: the run counts in a Usage of its own
Counted_NotShared(u) == u

\* The run counts an answered request in the Usage it was given (usage=self.usage)
Counted(u) == u + 1

\* Mutant of InRange: one iteration too many
InRange_Inclusive(num, max) == num <= max

\* The loop bound of play_game: for move_num in range(max_moves)
InRange(num, max) == num < max

PlayedMessage(pos, res) == <<agent_name(pos), " played ", res.move_uci>>
NoMoveMessage(pos, res) == <<agent_name(pos), " could not make a move: ">> \o res.reason

\* play_one_move returns (data, message) with the game left as (b, mh); its caller
\* goes on: play_game records the turn, the GUI worker is about to emit move_made,
\* a direct call gives control back.
Return(who, data, message, b, mh) ==
    /\ result' = [data |-> data, message |-> message]
    /\ turn_state' = "returned"
    /\ board' = b
    /\ move_history' = mh
    /\ IF who = "play_game"
       THEN /\ game_record' = Append(game_record, Entry(move_num, data, message, b, mh))
            /\ move_num' = move_num + 1
            /\ pc' = "loop"
       ELSE /\ pc' = IF who = "worker" THEN "emit" ELSE "idle"
            /\ UNCHANGED <<game_record, move_num>>

\* Mutant of Except: the exception leaves play_one_move and ends its caller
Except_Propagates(who, pos, e, b, mh) ==
    /\ result' = [data |-> NoValidMove(error_msg(pos, e)), message |-> error_msg(pos, e)]
    /\ turn_state' = "returned"
    /\ board' = b
    /\ move_history' = mh
    /\ pc' = "idle"
    /\ UNCHANGED <<game_record, move_num>>

\* The except branch: any exception of the try block becomes a NoValidMove
Except(who, pos, e, b, mh) ==
    Return(who, NoValidMove(error_msg(pos, e)), error_msg(pos, e), b, mh)

\* play_one_move up to the await of active_agent.run
BeginTurn(who) ==
    /\ position' = get_current_position
    /\ pre' = [board |-> board, move_history |-> move_history, usage |-> usage]
    /\ requests' = 0
    /\ response' = [type |-> "none"]
    /\ notified' = <<>>
    /\ caller' = who
    /\ retry' = 0
    /\ UNCHANGED <<usage, usage_limits, last_move_reasoning, ui_callback>>
    /\ IF TurnIsOver(get_current_position)
       THEN /\ Return(who, NoValidMove(GameAlreadyOver), <<"Game Over">>, board, move_history)
            /\ UNCHANGED prompt
       ELSE /\ prompt' = Prompt(get_current_position, move_history)
            /\ turn_state' = "running"
            /\ pc' = "run"
            /\ UNCHANGED <<board, move_history, result, game_record, move_num>>

\* A client calls play_one_move itself (as the GUI worker does)
CallPlayOneMove ==
    /\ pc = "idle"
    /\ api_calls < MaxCalls
    /\ api_calls' = api_calls + 1
    /\ BeginTurn("direct")
    /\ UNCHANGED <<max_moves, game_state, game_entry, turns>>
    /\ UNCHANGED <<class_vars, ui_vars>>

\* A client registers the callback on the game it has built (chess_ui.py sets
\* game.ui_callback right after ChessGame())
SetUiCallback ==
    /\ pc = "idle"
    /\ api_calls = 0
    /\ ~ui_callback
    /\ ui_callback' = TRUE
    /\ UNCHANGED <<board, move_history, usage, usage_limits, last_move_reasoning,
                   pc, caller, position, retry, game_record, move_num, max_moves,
                   game_state, result, turn_state, pre, requests, response,
                   notified, game_entry, turns, api_calls>>
    /\ UNCHANGED <<class_vars, ui_vars>>
    /\ UNCHANGED prompt

\* The run's next request is refused: the request limit is reached
RunUsageLimit ==
    /\ pc = "run"
    /\ LimitReached(usage, usage_limits)
    /\ Except(caller, position, UsageLimitExceeded, board, move_history)
    /\ UNCHANGED <<usage, usage_limits, last_move_reasoning, ui_callback, caller,
                   position, retry, max_moves, game_state, pre, requests, response,
                   notified, game_entry, turns, api_calls>>
    /\ UNCHANGED <<class_vars, ui_vars>>
    /\ UNCHANGED prompt

\* The request itself fails (timeout, connection error): the run raises
RunRequestFails ==
    /\ pc = "run"
    /\ ~LimitReached(usage, usage_limits)
    /\ requests' = requests + 1
    /\ response' = [type |-> "failed"]
    /\ Except(caller, position, RequestFailed, board, move_history)
    /\ UNCHANGED <<usage, usage_limits, last_move_reasoning, ui_callback, caller,
                   position, retry, max_moves, game_state, pre, notified,
                   game_entry, turns, api_calls>>
    /\ UNCHANGED <<class_vars, ui_vars>>
    /\ UNCHANGED prompt

\* A response is rejected (ModelRetry, or a response that is no valid result):
\* the retry counter grows and the run either asks again or gives up.
Rejected ==
    /\ retry' = retry + 1
    /\ IF RetryExceeded(retry + 1)
       THEN Except(caller, position, RetriesExceeded, board, move_history)
       ELSE UNCHANGED <<board, move_history, pc, result, turn_state, game_record, move_num>>
    /\ UNCHANGED <<last_move_reasoning, notified>>

\* Mutant of AppendHistory: the move is pushed but not recorded
AppendHistory_Skips(mh, uci) == mh

\* self.move_history.append(move_result.move_uci)
AppendHistory(mh, uci) == Append(mh, uci)

\* The try block after a ChessMove came back from the run
Commit(res, fails) ==
    IF FromUciRaises(res.move_uci)
    THEN /\ Except(caller, position, FromUciFailed, board, move_history)
         /\ UNCHANGED <<last_move_reasoning, notified>>
    ELSE LET b == Push(board, res.move_uci)
             mh == AppendHistory(move_history, res.move_uci)
         IN /\ last_move_reasoning' = res.reasoning
            /\ notified' = IF ui_callback
                           THEN Append(notified, <<agent_name(position), res.move_uci, res.reasoning>>)
                           ELSE notified
            /\ IF fails = "callback" /\ ui_callback
               THEN Except(caller, position, CallbackFailed, b, mh)
               ELSE IF fails = "logging"
               THEN Except(caller, position, LoggingFailed, b, mh)
               ELSE Return(caller, res, PlayedMessage(position, res), b, mh)

\* One request of the run is answered
RunResponse ==
    /\ pc = "run"
    /\ ~LimitReached(usage, usage_limits)
    /\ usage' = Counted(usage)
    /\ requests' = requests + 1
    /\ \E res \in ChessMoves \cup Abstentions \cup {[type |-> "malformed"]} :
         /\ response' = res
         /\ IF res.type = "malformed" THEN Rejected
            ELSE IF ~validate_move(position, res) THEN Rejected
            ELSE IF res.type = "ChessMove"
            THEN /\ \E fails \in {"none", "callback", "logging"} : Commit(res, fails)
                 /\ UNCHANGED retry
            ELSE /\ Return(caller, res, NoMoveMessage(position, res), board, move_history)
                 /\ UNCHANGED <<retry, last_move_reasoning, notified>>
    /\ UNCHANGED <<usage_limits, ui_callback, caller, position, max_moves, game_state,
                   pre, game_entry, turns, api_calls>>
    /\ UNCHANGED <<class_vars, ui_vars>>
    /\ UNCHANGED prompt

-----------------------------------------------------------------------------
(* play_game *)

CallPlayGame ==
    /\ pc = "idle"
    /\ api_calls < MaxCalls
    /\ api_calls' = api_calls + 1
    /\ \E n \in 0..MaxMoves : max_moves' = n
    /\ game_record' = <<>>
    /\ move_num' = 0
    /\ game_state' = "running"
    /\ game_entry' = [board |-> board, usage |-> usage]
    /\ turns' = 0
    /\ pc' = "loop"
    /\ UNCHANGED <<board, move_history, usage, usage_limits, last_move_reasoning,
                   ui_callback, caller, position, retry, result, turn_state, pre,
                   requests, response, notified>>
    /\ UNCHANGED <<class_vars, ui_vars>>
    /\ UNCHANGED prompt

\* The loop is exhausted: return game_record
GameReturn ==
    /\ pc = "loop"
    /\ ~InRange(move_num, max_moves)
    /\ pc' = "idle"
    /\ game_state' = "returned"
    /\ UNCHANGED <<board, move_history, usage, usage_limits, last_move_reasoning,
                   ui_callback, caller, position, retry, game_record, move_num,
                   max_moves, result, turn_state, pre, requests, response, notified,
                   game_entry, turns, api_calls>>
    /\ UNCHANGED <<class_vars, ui_vars>>
    /\ UNCHANGED prompt

\* An iteration finds the game over: record it, break, return game_record
GameOverBreak ==
    /\ pc = "loop"
    /\ InRange(move_num, max_moves)
    /\ IsGameOver(board)
    /\ game_record' = Append(game_record, GameOverEntry(board))
    /\ pc' = "idle"
    /\ game_state' = "returned"
    /\ UNCHANGED <<board, move_history, usage, usage_limits, last_move_reasoning,
                   ui_callback, caller, position, retry, move_num, max_moves,
                   result, turn_state, pre, requests, response, notified, game_entry,
                   turns, api_calls>>
    /\ UNCHANGED <<class_vars, ui_vars>>
    /\ UNCHANGED prompt

\* An iteration calls play_one_move
GameTurn ==
    /\ pc = "loop"
    /\ InRange(move_num, max_moves)
    /\ ~IsGameOver(board)
    /\ turns' = turns + 1
    /\ BeginTurn("play_game")
    /\ UNCHANGED <<max_moves, game_state, game_entry, api_calls>>
    /\ UNCHANGED <<class_vars, ui_vars>>

Next ==
    \/ SetUiCallback
    \/ CallPlayOneMove
    \/ CallPlayGame
    \/ GameReturn
    \/ GameOverBreak
    \/ GameTurn
    \/ RunUsageLimit
    \/ RunRequestFails
    \/ RunResponse

Spec == Init /\ [][Next]_vars

\* The command line (main.py): games are played through play_game only.  The event
\* loop runs a started coroutine on: a turn that was begun gets its answers (a
\* response, an error or a timeout) and the loop of play_game goes on.  Nothing
\* obliges the client to make a call.
CliNext ==
    \/ CallPlayGame
    \/ GameReturn
    \/ GameOverBreak
    \/ GameTurn
    \/ RunUsageLimit
    \/ RunRequestFails
    \/ RunResponse

CliSpec ==
    Init /\ [][CliNext]_vars
         /\ WF_vars(GameReturn \/ GameOverBreak \/ GameTurn
                    \/ RunUsageLimit \/ RunRequestFails \/ RunResponse)

-----------------------------------------------------------------------------
(* chess_ui.py: the window (GUI thread) and the game worker (its own thread)   *)
(*                                                                             *)
(* The worker's signals are queued to the GUI thread, which handles one event  *)
(* at a time and handles none while it is inside game_thread.wait().  wait()   *)
(* returns when the worker's run_game has returned: quit() was called before   *)
(* it, so the thread ends as soon as it is back in its event loop.  The GUI    *)
(* signals of a worker that has ended are delivered before Start is clicked     *)
(* again (they are posted events, handled before the user gets to the button   *)
(* that the previous handler has just enabled).  Drawing the board and the     *)
(* status texts are left out.                                                  *)

Signal(kind, message) == [kind |-> kind, message |-> message]

\* Mutant of KeepPlaying: the flag is not looked at
KeepPlaying_IgnoresStop(run, over) == ~over

\* The worker's loop condition: while self.running and not board.is_game_over()
KeepPlaying(run, over) == run /\ ~over

\* Mutant of WaitReturns: the GUI thread does not wait for the worker
WaitReturns_NoWait(p) == TRUE

\* game_thread.wait() returns once run_game has returned
WaitReturns(p) == p = "wdone"

\* update_after_move: the reasoning entry it appends for a move_made signal
Commentary(shown, mh, reasoning) ==
    IF Len(mh) > 0
    THEN Append(shown, <<(IF Len(mh) % 2 = 1 THEN "White" ELSE "Black"), LastOf(mh), reasoning>>)
    ELSE shown

\* ChessUI.start_game: a new ChessGame, a new worker in a new thread
StartGame ==
    /\ ui = "ready"
    /\ signals = <<>>
    /\ start_enabled
    /\ ui_callback \/ games > 0
    /\ games < MaxGames
    /\ games' = games + 1
    /\ board' = InitialBoard
    /\ move_history' = <<>>
    /\ usage' = 0
    /\ last_move_reasoning' = <<>>
    /\ ui_callback' = FALSE
    /\ commentary' = <<>>
    /\ start_enabled' = FALSE
    /\ stop_enabled' = TRUE
    /\ running' = TRUE
    /\ workers' = workers + 1
    /\ pc' = "wstart"
    /\ turns' = 0
    /\ turn_state' = "none"
    /\ position' = PositionOf(InitialBoard, <<>>)
    /\ prompt' = NoPrompt
    /\ pre' = [board |-> InitialBoard, move_history |-> <<>>, usage |-> 0]
    /\ result' = [data |-> NoValidMove(<<>>), message |-> <<>>]
    /\ requests' = 0
    /\ retry' = 0
    /\ response' = [type |-> "none"]
    /\ notified' = <<>>
    /\ UNCHANGED <<usage_limits, caller, game_record, move_num, max_moves, game_state,
                   game_entry, api_calls, ui, signals, class_vars>>

\* ChessUI.stop_game up to game_thread.wait()
StopGame ==
    /\ ui = "ready"
    /\ stop_enabled
    /\ running' = FALSE
    /\ ui' = "wait_stop"
    /\ UNCHANGED <<board, move_history, usage, usage_limits, last_move_reasoning,
                   ui_callback, pc, caller, position, retry, game_record, move_num,
                   max_moves, game_state, result, turn_state, pre, requests, response,
                   notified, game_entry, turns, api_calls, class_vars, workers,
                   start_enabled, stop_enabled, signals, commentary, games>>
    /\ UNCHANGED prompt

\* ChessUI.stop_game after game_thread.wait()
StopGameDone ==
    /\ ui = "wait_stop"
    /\ WaitReturns(pc)
    /\ start_enabled' = TRUE
    /\ stop_enabled' = FALSE
    /\ ui' = "ready"
    /\ UNCHANGED <<board, move_history, usage, usage_limits, last_move_reasoning,
                   ui_callback, pc, caller, position, retry, game_record, move_num,
                   max_moves, game_state, result, turn_state, pre, requests, response,
                   notified, game_entry, turns, api_calls, class_vars, running,
                   workers, signals, commentary, games>>
    /\ UNCHANGED prompt

\* ChessUI.update_after_move, the slot of move_made
UpdateAfterMove ==
    /\ ui = "ready"
    /\ signals # <<>>
    /\ Head(signals).kind = "move_made"
    /\ signals' = Tail(signals)
    /\ commentary' = Commentary(commentary, move_history, last_move_reasoning)
    /\ UNCHANGED <<board, move_history, usage, usage_limits, last_move_reasoning,
                   ui_callback, pc, caller, position, retry, game_record, move_num,
                   max_moves, game_state, result, turn_state, pre, requests, response,
                   notified, game_entry, turns, api_calls, class_vars, running,
                   workers, ui, start_enabled, stop_enabled, games>>
    /\ UNCHANGED prompt

\* game_finished and handle_error up to game_thread.wait()
EndHandler(kind) ==
    /\ signals # <<>>
    /\ Head(signals).kind = kind
    /\ signals' = Tail(signals)
    /\ start_enabled' = TRUE
    /\ stop_enabled' = FALSE
    /\ ui' = "wait_handler"
    /\ UNCHANGED <<board, move_history, usage, usage_limits, last_move_reasoning,
                   ui_callback, pc, caller, position, retry, game_record, move_num,
                   max_moves, game_state, result, turn_state, pre, requests, response,
                   notified, game_entry, turns, api_calls, class_vars, running,
                   workers, commentary, games>>
    /\ UNCHANGED prompt

\* ChessUI.game_finished, the slot of game_over
GameFinished ==
    /\ ui = "ready"
    /\ EndHandler("game_over")

\* ChessUI.handle_error, the slot of error_occurred
HandleError ==
    /\ ui = "ready"
    /\ EndHandler("error_occurred")

\* game_finished / handle_error after game_thread.wait()
HandlerDone ==
    /\ ui = "wait_handler"
    /\ WaitReturns(pc)
    /\ ui' = "ready"
    /\ UNCHANGED <<board, move_history, usage, usage_limits, last_move_reasoning,
                   ui_callback, pc, caller, position, retry, game_record, move_num,
                   max_moves, game_state, result, turn_state, pre, requests, response,
                   notified, game_entry, turns, api_calls, class_vars, running,
                   workers, start_enabled, stop_enabled, signals, commentary, games>>
    /\ UNCHANGED prompt

\* What a worker step leaves alone besides pc, signals and workers
WorkerFrame ==
    UNCHANGED <<prompt, board, move_history, usage, usage_limits, last_move_reasoning,
                ui_callback, caller, position, retry, game_record, move_num,
                max_moves, game_state, result, turn_state, pre, requests, response,
                notified, game_entry, turns, api_calls, class_vars, running, ui,
                start_enabled, stop_enabled, commentary, games>>

\* ChessGameWorker.run_game: the event loop is set up and play_game is entered
WorkerRun ==
    /\ pc = "wstart"
    /\ pc' = "wloop"
    /\ UNCHANGED <<signals, workers>>
    /\ WorkerFrame

\* ChessGameWorker.run_game: setting up the event loop raises
WorkerFails ==
    /\ pc = "wstart"
    /\ signals' = Append(signals, Signal("error_occurred", <<"Error in game: ">>))
    /\ pc' = "wdone"
    /\ workers' = workers - 1
    /\ WorkerFrame

\* An iteration of the worker's loop calls play_one_move
WorkerTurn ==
    /\ pc = "wloop"
    /\ KeepPlaying(running, IsGameOver(board))
    /\ turns < MaxWorkerTurns
    /\ turns' = turns + 1
    /\ BeginTurn("worker")
    /\ UNCHANGED <<max_moves, game_state, game_entry, api_calls, class_vars, ui_vars>>

\* play_one_move has returned: move_made is emitted, then the worker sleeps
WorkerEmit ==
    /\ pc = "emit"
    /\ signals' = Append(signals, Signal("move_made", result.message))
    /\ pc' = "wloop"
    /\ UNCHANGED workers
    /\ WorkerFrame

\* The loop condition fails: game_over is emitted if the game is over, run_game returns
WorkerExit ==
    /\ pc = "wloop"
    /\ ~KeepPlaying(running, IsGameOver(board))
    /\ signals' = IF IsGameOver(board)
                  THEN Append(signals, Signal("game_over", <<get_game_result(board)>>))
                  ELSE signals
    /\ pc' = "wdone"
    /\ workers' = workers - 1
    /\ WorkerFrame

UiNext ==
    \/ SetUiCallback
    \/ StartGame
    \/ StopGame
    \/ StopGameDone
    \/ UpdateAfterMove
    \/ GameFinished
    \/ HandleError
    \/ HandlerDone
    \/ WorkerRun
    \/ WorkerFails
    \/ WorkerTurn
    \/ WorkerEmit
    \/ WorkerExit
    \/ RunUsageLimit
    \/ RunRequestFails
    \/ RunResponse

\* The worker thread runs on: its steps are taken, a request of a turn gets its
\* answer, error or timeout.  Nothing obliges the user to click.
UiSpec ==
    Init /\ [][UiNext]_vars
         /\ WF_vars(WorkerRun \/ WorkerFails \/ WorkerEmit \/ WorkerExit
                    \/ RunUsageLimit \/ RunRequestFails \/ RunResponse)

-----------------------------------------------------------------------------
(* get_game_result as a function of what the engine reports *)

ClassifyInit ==
    /\ GameInit
    /\ flags \in [checkmate : BOOLEAN, stalemate : BOOLEAN, insufficient : BOOLEAN,
                  fifty : BOOLEAN, repetition : BOOLEAN, turn : {WHITE, BLACK}]
    /\ classified = "none"
    /\ UiVarsInit

\* get_game_result is called
Classify ==
    /\ classified = "none"
    /\ classified' = ClassifyResult(flags.checkmate, flags.stalemate, flags.insufficient,
                                    flags.fifty, flags.repetition, flags.turn)
    /\ UNCHANGED <<board, move_history, usage, usage_limits, last_move_reasoning,
                   ui_callback, pc, caller, position, retry, game_record, move_num,
                   max_moves, game_state, result, turn_state, pre, requests, response,
                   notified, game_entry, turns, api_calls, flags>>
    /\ UNCHANGED ui_vars
    /\ UNCHANGED prompt

ClassifySpec == ClassifyInit /\ [][Classify]_vars

-----------------------------------------------------------------------------
(* Properties *)

TurnReturned == turn_state = "returned"
ReturnedMove == TurnReturned /\ result.data.type = "ChessMove"
ReturnedAbstention == TurnReturned /\ result.data.type = "NoValidMove"
LastEntry == game_record[Len(game_record)]

\* C1: the board and move_history change only by the push of a ChessMove whose
\* move_uci is in the legal_moves of this turn's snapshot, the snapshot still
\* describing the board at that moment; a ChessMove answered by the model is
\* accepted (no retry counted) exactly when its move_uci is in that list.
C1_CommitOnlyLegal ==
    [][ /\ (board' # board \/ move_history' # move_history) =>
             /\ pc = "run"
             /\ position = get_current_position
             /\ response'.type = "ChessMove"
             /\ response'.move_uci \in position.legal_moves
             /\ board' = Push(board, response'.move_uci)
             /\ move_history' = Append(move_history, response'.move_uci)
        /\ (pc = "run" /\ requests' = requests + 1 /\ response'.type = "ChessMove") =>
             ((retry' = retry) <=> (response'.move_uci \in position.legal_moves))
      ]_vars

C1_Witness == ReturnedMove /\ retry > 0 /\ board # pre.board

\* C2: a turn that returned a NoValidMove left board and move_history as they
\* were when the turn started.
C2_AbstentionLeavesGame ==
    ReturnedAbstention => (board = pre.board /\ move_history = pre.move_history)

\* C3: a turn that returned a ChessMove pushed exactly that move, flipped the side
\* to move once and grew move_history by that one entry; White is to move exactly
\* when the number of moves pushed is even.
C3_SideAlternates ==
    /\ (board.turn = WHITE) <=> (Len(move_history) % 2 = 0)
    /\ board.move_stack = move_history
    /\ ReturnedMove =>
         /\ board = Push(pre.board, result.data.move_uci)
         /\ board.turn = Other(pre.board.turn)
         /\ move_history = Append(pre.move_history, result.data.move_uci)

C3_Witness == ReturnedMove /\ Len(move_history) = 2 /\ board.turn = WHITE

\* C4: a turn makes at most Retries + 1 requests, each one after the first
\* following a rejection, and a turn with more than Retries rejections ended as
\* the NoValidMove that reports the exhausted retries.
C4_RetryCeiling ==
    /\ requests <= Retries + 1
    /\ retry <= Retries + 1
    /\ pc = "run" => (retry <= Retries /\ requests = retry)
    /\ (TurnReturned /\ retry > Retries) =>
         /\ result.data = NoValidMove(error_msg(position, RetriesExceeded))
         /\ board = pre.board

C4_Witness == TurnReturned /\ retry = Retries + 1 /\ requests = Retries + 1

\* C5: once a turn of play_game ended on the request limit, that play_game calls
\* play_one_move no more; and a run that finds the limit reached makes no request
\* and ends the turn as the NoValidMove that reports the limit.
C5_UsageLimitStopsGame ==
    [][ /\ (pc = "run" /\ LimitReached(usage, usage_limits)) =>
             /\ usage' = usage /\ requests' = requests
             /\ result'.data = NoValidMove(error_msg(position, UsageLimitExceeded))
        /\ (/\ pc = "loop" /\ game_state = "running" /\ turns > 0
            /\ result.data = NoValidMove(error_msg(position, UsageLimitExceeded))) =>
             turns' = turns
      ]_vars

\* C6: a play_one_move called on a game-over position returned the NoValidMove
\* "Game is already over", made no request and changed neither usage, board nor
\* move_history; a play_game started on a checkmate made no turn and no request,
\* left the board alone, and its result is the win of the side not to move,
\* recorded as the single game_over entry as soon as max_moves allows an iteration.
C6_GameAlreadyOver ==
    /\ (TurnReturned /\ IsGameOver(pre.board)) =>
         /\ result = [data |-> NoValidMove(GameAlreadyOver), message |-> <<"Game Over">>]
         /\ requests = 0
         /\ usage = pre.usage
         /\ board = pre.board
         /\ move_history = pre.move_history
    /\ (game_state = "returned" /\ IsCheckmate(game_entry.board)) =>
         /\ turns = 0
         /\ usage = game_entry.usage
         /\ board = game_entry.board
         /\ get_game_result(board) = (IF board.turn = WHITE THEN "0-1" ELSE "1-0")
         /\ game_record = IF max_moves > 0 THEN <<GameOverEntry(board)>> ELSE <<>>

C6_Witness ==
    /\ game_state = "returned" /\ IsCheckmate(game_entry.board) /\ max_moves > 0
    /\ game_record = <<GameOverEntry(board)>>

\* C7: once the model answered a NoValidMove the turn is over: that same
\* NoValidMove is what play_one_move returned, no retry was counted for it and no
\* further request was made.
C7_AbstentionNotRetried ==
    response.type = "NoValidMove" =>
        /\ TurnReturned
        /\ pc # "run"
        /\ result.data = response
        /\ result.message = NoMoveMessage(position, response)
        /\ requests = retry + 1
        /\ board = pre.board

C7_Witness == response.type = "NoValidMove" /\ retry > 0 /\ TurnReturned

\* C8: a failed request, a reached request limit and exhausted retries each end
\* the turn as a NoValidMove whose reason is the error message with that failure's
\* description; a turn of play_game that ends is recorded and play_game goes on
\* with its loop; play_game returns only with the loop exhausted or the game over.
C8_FailuresBecomeAbstentions ==
    [][ /\ (pc = "run" /\ response'.type = "failed") =>
             /\ TurnReturned'
             /\ result'.data = NoValidMove(error_msg(position, RequestFailed))
        /\ (pc = "run" /\ LimitReached(usage, usage_limits)) =>
             /\ TurnReturned'
             /\ result'.data = NoValidMove(error_msg(position, UsageLimitExceeded))
        /\ (pc = "run" /\ retry' > Retries) =>
             /\ TurnReturned'
             /\ result'.data = NoValidMove(error_msg(position, RetriesExceeded))
        /\ (pc = "run" /\ pc' # "run" /\ caller = "play_game") =>
             /\ pc' = "loop"
             /\ game_state' = "running"
             /\ game_record' = Append(game_record,
                                      Entry(move_num, result'.data, result'.message,
                                            board', move_history'))
        /\ (game_state = "running" /\ game_state' = "returned") =>
             (move_num = max_moves \/ IsGameOver(board))
      ]_vars

C8_Witness ==
    /\ game_state = "returned" /\ Len(game_record) = 3
    /\ game_record[1].message = error_msg(position, RequestFailed)
    /\ game_record[2].message = error_msg(position, RetriesExceeded)
    /\ game_record[3].message = error_msg(position, UsageLimitExceeded)

\* C9: when a play_game that had at least one iteration has returned with the
\* board game-over, the record ends with the game_over entry.
C9_RecordEndsWithGameOver ==
    (game_state = "returned" /\ max_moves > 0 /\ IsGameOver(board)) =>
        (Len(game_record) > 0 /\ LastEntry = GameOverEntry(board))

\* C10: play_game calls play_one_move at most max_moves times, each call taking
\* one iteration and adding one entry; an iteration that finds the game over makes
\* no call and ends play_game; and a play_game that was started returns.
C10_Slots ==
    /\ turns <= max_moves
    /\ move_num <= max_moves
    /\ turns = IF pc = "run" /\ caller = "play_game" THEN move_num + 1 ELSE move_num
    /\ Len(game_record) \in {move_num, move_num + 1}
    /\ game_state = "running" => Len(game_record) = move_num

C10_TerminatesWithinMaxMoves ==
    /\ []C10_Slots
    /\ [][ (pc = "loop" /\ IsGameOver(board)) =>
             (game_state' = "returned" /\ turns' = turns) ]_vars
    /\ (game_state = "running") ~> (game_state = "returned")

C10_Witness ==
    game_state = "returned" /\ max_moves > 1 /\ turns = max_moves /\ ~IsGameOver(board)

\* The moves of the per-turn entries of a record that carry a move, in order
RECURSIVE RecordedMoves(_)
RecordedMoves(record) ==
    IF record = <<>> THEN <<>>
    ELSE LET e == Head(record)
         IN IF "move" \in DOMAIN e /\ e.move # "None"
            THEN <<e.move>> \o RecordedMoves(Tail(record))
            ELSE RecordedMoves(Tail(record))

RECURSIVE Replay(_, _)
Replay(b, moves) ==
    IF moves = <<>> THEN b ELSE Replay(Push(b, Head(moves)), Tail(moves))

\* C11: between the turns of a play_game, replaying the moves of its record's
\* entries from the board the play_game started on gives the board as it is now:
\* the recorded moves are, in order, the moves pushed.
C11_RecordReplaysToBoard ==
    (game_state = "running" /\ pc = "loop") =>
        /\ Replay(game_entry.board, RecordedMoves(game_record)) = board
        /\ board.move_stack = game_entry.board.move_stack \o RecordedMoves(game_record)

\* The flags in the order of their priority, and the result each one stands for
Priority == <<"checkmate", "stalemate", "insufficient", "fifty", "repetition">>

ResultOf(flag, turn) ==
    CASE flag = "checkmate" -> (IF turn = WHITE THEN "0-1" ELSE "1-0")
      [] flag = "stalemate" -> "1/2-1/2 (Stalemate)"
      [] flag = "insufficient" -> "1/2-1/2 (Insufficient material)"
      [] flag = "fifty" -> "1/2-1/2 (Fifty-move rule)"
      [] flag = "repetition" -> "1/2-1/2 (Repetition)"

FlagsSet == { i \in 1..Len(Priority) : flags[Priority[i]] }

\* C12: what get_game_result returns is the result of the first flag that is set,
\* in the order checkmate, stalemate, insufficient material, fifty-move,
\* repetition, and "Unknown result" when none is set; on checkmate the winner is
\* the side that is not to move.
C12_ResultPriority ==
    classified # "none" =>
        classified = IF FlagsSet = {} THEN "Unknown result"
                     ELSE LET first == CHOOSE i \in FlagsSet : \A j \in FlagsSet : i <= j
                          IN ResultOf(Priority[first], flags.turn)

C12_Witness ==
    /\ classified = "1-0"
    /\ flags.checkmate /\ flags.stalemate /\ flags.repetition
    /\ flags.turn = BLACK

C16_RecordAppendOnly ==
    /\ [](/\ Len(game_record) >= move_num
          /\ \A i \in 1..move_num :
                /\ "move_number" \in DOMAIN game_record[i]
                /\ game_record[i].move_number = i
          /\ \A i \in (move_num + 1)..Len(game_record) : game_record[i].event = "game_over"
          /\ move_num = IF pc = "run" /\ caller = "play_game" THEN turns - 1 ELSE turns)
    /\ [][ /\ game_state = "running" =>
                \/ game_record' = game_record /\ move_num' = move_num
                \/ /\ Len(game_record') = Len(game_record) + 1
                   /\ SubSeq(game_record', 1, Len(game_record)) = game_record
                   /\ \/ pc = "run" /\ pc' = "loop" /\ move_num' = move_num + 1
                      \/ pc = "loop" /\ game_state' = "returned" /\ move_num' = move_num
           /\ game_state = "returned" =>
                (game_record' = game_record \/ (game_state' = "running" /\ game_record' = <<>>))
         ]_vars

C16_Witness ==
    /\ game_state = "returned" /\ Len(game_record) = 3 /\ move_num = 2
    /\ game_record[2].move_number = 2 /\ game_record[2].move = "d8h4"
    /\ game_record[3].event = "game_over"

\* The request limit is Retries + 1 and the latest turn, begun with no request
\* counted, made Retries + 1 requests whose answers were all rejected
AllRejectedAtLimit ==
    /\ usage_limits = Retries + 1
    /\ TurnReturned /\ pre.usage = 0
    /\ requests = Retries + 1 /\ retry = Retries + 1

FirstTurnE2E4 ==
    /\ caller = "play_game" /\ turns = 1 /\ TurnReturned
    /\ pre.board = InitialBoard
    /\ requests = 1
    /\ response = ChessMove("e2e4", Reasoning("e2e4"))

Snapshots == {position} \cup { game_record[i].position : i \in 1..move_num }

\* C20 as stated: in every snapshot legal_moves is non-empty exactly when
\* is_game_over is false.
C20_LegalIffNotOver ==
    \A p \in Snapshots : (p.legal_moves # {}) <=> ~p.is_game_over

\* C20: a snapshot that is not game-over has legal moves, a snapshot with
\* checkmate or stalemate has none, and the snapshot a run is started with has
\* legal moves.
C20_NotOverHasLegalMoves ==
    /\ \A p \in Snapshots :
          /\ ~p.is_game_over => p.legal_moves # {}
          /\ (p.is_checkmate \/ p.is_stalemate) => (p.legal_moves = {} /\ p.is_game_over)
    /\ pc = "run" => (position.legal_moves # {} /\ position = get_current_position)

C20_Witness ==
    /\ \E p \in Snapshots : p.is_game_over /\ p.legal_moves # {}
    /\ \E p \in Snapshots : ~p.is_game_over /\ p.legal_moves # {}

WorkerLoopEnded == pc \in {"idle", "wdone"}

Reported(mh) ==
    [i \in 1..Len(mh) |-> <<(IF i % 2 = 1 THEN "White" ELSE "Black"), mh[i], Reasoning(mh[i])>>]

\* C15: in a game started from the window, whose callback was registered when the
\* window was built, a turn that returned a move called the callback once, with
\* (side, move, reasoning) of that move, and a turn that returned a NoValidMove
\* did not call it; and once the signals of the turns played are handled, the
\* reasoning display has one entry for each move played, in order, and none for
\* a turn that played no move.
C15_MoveNotifications ==
    /\ (caller = "worker" /\ ReturnedMove) =>
          notified = << <<agent_name(position), result.data.move_uci, result.data.reasoning>> >>
    /\ (caller = "worker" /\ ReturnedAbstention) => notified = <<>>
    /\ (games > 0 /\ signals = <<>> /\ pc \in {"wloop", "wdone"}) =>
          commentary = Reported(move_history)

\* While a turn is in flight no other turn begins, and its requests are made one
\* at a time, each after the first following a rejection of the one before
TurnsSequential ==
    /\ pc = "run" =>
          /\ pre' = pre /\ position' = position /\ turns' = turns
          /\ requests' \in {requests, requests + 1}
          /\ (requests' = requests + 1 /\ requests > 0) => retry = requests
    /\ (turn_state' = "running" /\ (turn_state # "running" \/ turns' # turns)) =>
          (pc # "run" /\ turn_state # "running")

\* C18: a turn begins only when no turn of the game is in flight and the requests
\* of a turn follow one another; at most one worker's loop is running at any
\* time, a worker being started only when no worker's loop is running.
C18_OneWorkerAtATime ==
    /\ [](workers <= 1)
    /\ [](workers = (IF pc \in {"wstart", "wloop", "run", "emit"} THEN 1 ELSE 0))
    /\ [][ /\ TurnsSequential
           /\ workers' > workers => (workers = 0 /\ WorkerLoopEnded)
         ]_vars

C18_Witness == games = 2 /\ workers = 1 /\ pc = "run" /\ retry > 0 /\ running

\* C21: the prompt of a turn that is in flight on a board with a move pushed
\* describes the move pushed last, attributed to the side that is not to move
\* now, and addresses the side that is to move; on a board with no move pushed
\* it describes no move.
C21_LastMoveDescribed ==
    pc = "run" =>
        /\ prompt.side = (IF board.turn = WHITE THEN "White" ELSE "Black")
        /\ prompt.move_description =
              IF Len(board.move_stack) > 0
              THEN <<(IF Other(board.turn) = WHITE THEN "White" ELSE "Black"),
                     "'s last move was ", board.move_stack[Len(board.move_stack)], ". ">>
              ELSE <<>>
        /\ Len(board.move_stack) > 0 => prompt.move_description[1] # prompt.side

C21_Witness ==
    /\ pc = "run" /\ caller = "play_game" /\ turns = 3
    /\ game_record[1].move = "e2e4" /\ game_record[2].move = "None"
    /\ prompt.move_description = <<"White", "'s last move was ", "e2e4", ". ">>

====
